---------------------------- MODULE Spec2Model ----------------------------
(***************************************************************************)
(* Model of src/public/fix_chat.js: the chat front end that posts the      *)
(* conversation to /api/chat, reads the answer as a server-sent-event      *)
(* stream, splits it into event payloads (consumeSseEvents), extracts the  *)
(* text delta of every payload (processSseDataChunk) and shows the         *)
(* accumulated answer in the assistant message element.                    *)
(*                                                                         *)
(* A JavaScript string is a sequence of one-character strings; indexes are *)
(* 1-based here where the source's are 0-based.                            *)
(***************************************************************************)
EXTENDS Integers, Sequences, FiniteSets

(***************************************************************************)
(* Characters and string constants of the source.                          *)
(***************************************************************************)
LF == "\n"
CR == "\r"
SP == " "
TAB == "\t"
QUOTE == "\""

\* "\n\n", the argument of indexOf and the suffix of the end-of-stream pass
EventTerminator == <<LF, LF>>

\* the "data:" of line.startsWith("data:") and "data:".length
DataPrefix == <<"d", "a", "t", "a", ":">>

\* the "[DONE]" of data === "[DONE]"
DoneMarker == <<"[", "D", "O", "N", "E", "]">>

\* the characters String.prototype.trimStart removes, among those of the model
WhiteSpace == {SP, TAB, LF, CR}

(***************************************************************************)
(* String methods the source calls.                                        *)
(***************************************************************************)
\* s.slice(from) for 0 <= from (0-based)
SliceFrom(s, from) == SubSeq(s, from + 1, Len(s))

\* s.slice(0, to) (0-based, to exclusive)
SliceTo(s, to) == SubSeq(s, 1, to)

\* buffer.replace(/\r/g, "")
StripCR(s) == SelectSeq(s, LAMBDA c : c # CR)

\* s.indexOf("\n\n"): 0-based index of the first occurrence, -1 when none
IndexOfTerminator(s) ==
  LET hits == {i \in 1..(Len(s) - 1) : s[i] = LF /\ s[i + 1] = LF}
  IN  IF hits = {} THEN -1
      ELSE (CHOOSE i \in hits : \A j \in hits : i <= j) - 1

\* 0-based index of the first "\n" of s, -1 when none
IndexOfLF(s) ==
  LET hits == {i \in 1..Len(s) : s[i] = LF}
  IN  IF hits = {} THEN -1
      ELSE (CHOOSE i \in hits : \A j \in hits : i <= j) - 1

\* s.split("\n"): always at least one line
RECURSIVE SplitLines(_)
SplitLines(s) ==
  LET i == IndexOfLF(s)
  IN  IF i = -1 THEN <<s>>
      ELSE <<SliceTo(s, i)>> \o SplitLines(SliceFrom(s, i + 1))

\* line.startsWith(prefix)
StartsWith(line, prefix) ==
  /\ Len(line) >= Len(prefix)
  /\ SubSeq(line, 1, Len(prefix)) = prefix

\* s.trimStart()
RECURSIVE TrimStart(_)
TrimStart(s) ==
  IF s # <<>> /\ Head(s) \in WhiteSpace THEN TrimStart(Tail(s)) ELSE s

\* lines.join("\n")
RECURSIVE JoinLines(_)
JoinLines(lines) ==
  IF lines = <<>> THEN <<>>
  ELSE IF Len(lines) = 1 THEN lines[1]
  ELSE lines[1] \o <<LF>> \o JoinLines(Tail(lines))

\* the concatenation of a sequence of strings
RECURSIVE Concat(_)
Concat(ss) == IF ss = <<>> THEN <<>> ELSE Head(ss) \o Concat(Tail(ss))

(***************************************************************************)
(* consumeSseEvents (lines 199-222).                                       *)
(***************************************************************************)
\* lines 208-215: the data lines of one raw event, prefix and leading
\* white space removed
RECURSIVE DataLines(_)
DataLines(lines) ==
  IF lines = <<>> THEN <<>>
  ELSE (IF StartsWith(Head(lines), DataPrefix)
          THEN <<TrimStart(SliceFrom(Head(lines), Len(DataPrefix)))>>
          ELSE <<>>)
       \o DataLines(Tail(lines))

\* the while loop without the continue of line 216: an event without data
\* line gives the empty payload
RECURSIVE ConsumeLoopPushEmpty(_, _)
ConsumeLoopPushEmpty(normalized, events) ==
  LET eventEndIndex == IndexOfTerminator(normalized)
  IN  IF eventEndIndex = -1
        THEN [events |-> events, buffer |-> normalized]
        ELSE LET rawEvent  == SliceTo(normalized, eventEndIndex)
                 rest      == SliceFrom(normalized, eventEndIndex + 2)
                 dataLines == DataLines(SplitLines(rawEvent))
             IN  ConsumeLoopPushEmpty(rest,
                                      Append(events, JoinLines(dataLines)))

\* lines 204-219: the while loop, from the loop variables normalized, events
RECURSIVE ConsumeLoop(_, _)
ConsumeLoop(normalized, events) ==
  LET eventEndIndex == IndexOfTerminator(normalized)
  IN  IF eventEndIndex = -1
        THEN [events |-> events, buffer |-> normalized]
        ELSE LET rawEvent  == SliceTo(normalized, eventEndIndex)
                 rest      == SliceFrom(normalized, eventEndIndex + 2)
                 dataLines == DataLines(SplitLines(rawEvent))
             IN  IF dataLines = <<>>
                   THEN ConsumeLoop(rest, events)
                   ELSE ConsumeLoop(rest, Append(events, JoinLines(dataLines)))

\* consumeSseEvents with if for the while of line 204: one event a call
consumeSseEventsFirstOnly(buffer) ==
  LET normalized    == StripCR(buffer)
      eventEndIndex == IndexOfTerminator(normalized)
  IN  IF eventEndIndex = -1
        THEN [events |-> <<>>, buffer |-> normalized]
        ELSE LET dataLines ==
                   DataLines(SplitLines(SliceTo(normalized, eventEndIndex)))
             IN  [events |-> IF dataLines = <<>> THEN <<>>
                             ELSE <<JoinLines(dataLines)>>,
                  buffer |-> SliceFrom(normalized, eventEndIndex + 2)]

\* consumeSseEvents without line 200's replace
consumeSseEventsKeepCR(buffer) == ConsumeLoop(buffer, <<>>)

consumeSseEvents(buffer) == ConsumeLoop(StripCR(buffer), <<>>)

(***************************************************************************)
(* JSON.parse (line 242) and the property reads of lines 246-251.          *)
(*                                                                         *)
(* A JavaScript value the code reads is a record: its typeof, whether it   *)
(* is truthy, and the string that += appends for it (ToString).            *)
(***************************************************************************)
W_response == <<"r", "e", "s", "p", "o", "n", "s", "e">>
W_choices == <<"c", "h", "o", "i", "c", "e", "s">>
W_delta == <<"d", "e", "l", "t", "a">>
W_content == <<"c", "o", "n", "t", "e", "n", "t">>
W_true == <<"t", "r", "u", "e">>
W_false == <<"f", "a", "l", "s", "e">>
W_null == <<"n", "u", "l", "l">>
W_undefined == <<"u", "n", "d", "e", "f", "i", "n", "e", "d">>

Digits == {"0", "1", "2", "3", "4", "5", "6", "7", "8", "9"}

Undefined == [type |-> "undefined", truthy |-> FALSE, text |-> W_undefined]
Null == [type |-> "object", truthy |-> FALSE, text |-> W_null]
StringValue(s) == [type |-> "string", truthy |-> s # <<>>, text |-> s]
NumberValue(ds) == [type |-> "number", truthy |-> ds # <<"0">>, text |-> ds]
BooleanValue(b) ==
  [type |-> "boolean", truthy |-> b, text |-> IF b THEN W_true ELSE W_false]

\* the characters of JSON's grammar that are tokens by themselves, and the
\* quote that opens and closes a string
Structural == {"{", "}", "[", "]", ":", ","}

\* JSON's insignificant white space removed: none is kept outside string
\* literals, except one space between two tokens that are neither structural
\* nor strings (1 2 stays two tokens)
RECURSIVE StripJsonWs(_, _, _, _)
StripJsonWs(s, out, inString, pending) ==
  IF s = <<>> THEN out
  ELSE LET c == Head(s)
       IN  IF inString
             THEN StripJsonWs(Tail(s), Append(out, c), c # QUOTE, FALSE)
           ELSE IF c \in WhiteSpace
             THEN StripJsonWs(Tail(s), out, FALSE,
                              out # <<>> /\ out[Len(out)] \notin Structural \cup {QUOTE})
           ELSE IF c = QUOTE
             THEN StripJsonWs(Tail(s), Append(out, c), TRUE, FALSE)
           ELSE IF pending /\ c \notin Structural
             THEN StripJsonWs(Tail(s), out \o <<SP, c>>, FALSE, FALSE)
           ELSE StripJsonWs(Tail(s), Append(out, c), FALSE, FALSE)

Quoted(s) == <<QUOTE>> \o s \o <<QUOTE>>

\* the two payload shapes of the file's header comment (lines 227-228), as
\* the texts before and after the value v:
\*   {"response":v}    {"choices":[{"delta":{"content":v}}]}
ResponseOpen == <<"{">> \o Quoted(W_response) \o <<":">>
ResponseClose == <<"}">>
ChoicesHead ==
  <<"{">> \o Quoted(W_choices) \o <<":", "[", "{">> \o Quoted(W_delta) \o <<":">>
ContentOpen == <<"{">> \o Quoted(W_content) \o <<":">>
ChoicesOpen == ChoicesHead \o ContentOpen
ChoicesClose == <<"}", "}", "]", "}">>
\* {"choices":[{"delta":{}}]}: a delta without content
ChoicesNoContent == ChoicesHead \o <<"{", "}", "}", "]", "}">>

EndsWith(s, suffix) ==
  /\ Len(s) >= Len(suffix)
  /\ SubSeq(s, Len(s) - Len(suffix) + 1, Len(s)) = suffix

\* the text between open and close
Between(s, open, close) == SubSeq(s, Len(open) + 1, Len(s) - Len(close))

Wrapped(s, open, close) ==
  /\ Len(s) >= Len(open) + Len(close)
  /\ StartsWith(s, open)
  /\ EndsWith(s, close)

\* a JSON string literal without escapes: no quote, backslash or control
\* character between its quotes
IsStringLiteral(v) ==
  /\ Len(v) >= 2
  /\ v[1] = QUOTE
  /\ v[Len(v)] = QUOTE
  /\ \A i \in 2..(Len(v) - 1) : v[i] \notin {QUOTE, "\\", LF, CR, TAB}

\* a JSON number that is a non-negative integer (no leading zero)
IsNumberLiteral(v) ==
  /\ Len(v) >= 1
  /\ \A i \in 1..Len(v) : v[i] \in Digits
  /\ Len(v) > 1 => v[1] # "0"

IsScalar(v) ==
  IsStringLiteral(v) \/ IsNumberLiteral(v) \/ v \in {W_true, W_false, W_null}

ScalarValue(v) ==
  IF IsStringLiteral(v) THEN StringValue(SubSeq(v, 2, Len(v) - 1))
  ELSE IF IsNumberLiteral(v) THEN NumberValue(v)
  ELSE IF v = W_true THEN BooleanValue(TRUE)
  ELSE IF v = W_false THEN BooleanValue(FALSE)
  ELSE Null

\* What JSON.parse(data) gives, as far as lines 246-251 read it:
\*   threw:    JSON.parse throws SyntaxError
\*   nullish:  the value is null, so reading .response throws TypeError
\*   response: jsonData.response
\*   content:  jsonData.choices?.[0]?.delta?.content
\* The texts parsed are null, {} and the two payload shapes around a scalar;
\* every other text is taken not to parse.
SyntaxError ==
  [threw |-> TRUE, nullish |-> FALSE, response |-> Undefined, content |-> Undefined]

Parsed(response, content) ==
  [threw |-> FALSE, nullish |-> FALSE, response |-> response, content |-> content]

JSONparse(data) ==
  LET t == StripJsonWs(data, <<>>, FALSE, FALSE)
  IN  IF t = W_null
        THEN [threw |-> FALSE, nullish |-> TRUE,
              response |-> Undefined, content |-> Undefined]
      ELSE IF t = <<"{", "}">> \/ t = ChoicesNoContent
        THEN Parsed(Undefined, Undefined)
      ELSE IF Wrapped(t, ResponseOpen, ResponseClose)
              /\ IsScalar(Between(t, ResponseOpen, ResponseClose))
        THEN Parsed(ScalarValue(Between(t, ResponseOpen, ResponseClose)), Undefined)
      ELSE IF Wrapped(t, ChoicesOpen, ChoicesClose)
              /\ IsScalar(Between(t, ChoicesOpen, ChoicesClose))
        THEN Parsed(Undefined, ScalarValue(Between(t, ChoicesOpen, ChoicesClose)))
      ELSE SyntaxError

(***************************************************************************)
(* processSseDataChunk (lines 235-264).                                    *)
(*                                                                         *)
(* The result is the returned string, whether the call completed by return *)
(* or by throw, and how many times it called flushAssistantText; what the  *)
(* callback writes is the caller's business (ProcessEvents).               *)
(***************************************************************************)
Returned(responseText, flushed) ==
  [responseText |-> responseText, flushed |-> flushed, threw |-> FALSE]

\* lines 243-252: the content taken from the parsed value
ContentOf(jsonData) ==
  IF jsonData.response.type = "string" /\ Len(jsonData.response.text) > 0
    THEN jsonData.response
  ELSE IF jsonData.content.truthy
    THEN jsonData.content
  ELSE StringValue(<<>>)

\* processSseDataChunk with = for the += of line 256
processSseDataChunkAssign(data, responseText) ==
  IF data = DoneMarker THEN Returned(responseText, FALSE)
  ELSE LET jsonData == JSONparse(data)
       IN  IF jsonData.threw \/ jsonData.nullish
             THEN Returned(responseText, FALSE)
           ELSE LET content == ContentOf(jsonData)
                IN  IF content.truthy
                      THEN Returned(content.text, TRUE)
                      ELSE Returned(responseText, FALSE)

\* processSseDataChunk without the try and catch of lines 241 and 259
processSseDataChunkNoCatch(data, responseText) ==
  IF data = DoneMarker THEN Returned(responseText, FALSE)
  ELSE LET jsonData == JSONparse(data)
       IN  IF jsonData.threw \/ jsonData.nullish
             THEN [responseText |-> responseText, flushed |-> FALSE,
                   threw |-> TRUE]
           ELSE LET content == ContentOf(jsonData)
                IN  IF content.truthy
                      THEN Returned(responseText \o content.text, TRUE)
                      ELSE Returned(responseText, FALSE)

\* processSseDataChunk with line 257 moved out of the if of line 255
processSseDataChunkAlwaysFlush(data, responseText) ==
  IF data = DoneMarker THEN Returned(responseText, FALSE)
  ELSE LET jsonData == JSONparse(data)
       IN  IF jsonData.threw \/ jsonData.nullish
             THEN Returned(responseText, FALSE)
           ELSE LET content == ContentOf(jsonData)
                IN  IF content.truthy
                      THEN Returned(responseText \o content.text, TRUE)
                      ELSE Returned(responseText, TRUE)

processSseDataChunk(data, responseText) ==
  IF data = DoneMarker THEN Returned(responseText, FALSE)
  ELSE LET jsonData == JSONparse(data)
       IN  IF jsonData.threw \/ jsonData.nullish
             \* lines 259-261: the catch logs, line 263 returns
             THEN Returned(responseText, FALSE)
           ELSE LET content == ContentOf(jsonData)
                IN  IF content.truthy
                      THEN Returned(responseText \o content.text, TRUE)
                      ELSE Returned(responseText, FALSE)

(***************************************************************************)
(* State.                                                                  *)
(*                                                                         *)
(* Texts that no code inspects (the greeting, the error messages, what the *)
(* user typed apart from its white space) are kept as whole fragments.     *)
(***************************************************************************)
VARIABLES
  chatHistory,      \* line 14: sequence of [role, content]
  isProcessing,     \* line 21
  userInput,        \* line 9: [value, disabled]
  sendButton,       \* line 10: [disabled]
  typingIndicator,  \* line 11: [visible], the class "visible"
  chatMessages,     \* line 8: the message elements appended, [role, textContent]
  calls,            \* the activations of sendMessage, in the order they began
  turnedAway        \* a message was typed and sendMessage returned at line 60
                    \* since the latest exchange began

vars ==
  <<chatHistory, isProcessing, userInput, sendButton, typingIndicator,
    chatMessages, calls, turnedAway>>

\* lines 14-20
Greeting ==
  <<"Hello! I'm an LLM chat app powered by Cloudflare Workers AI. How can I help you today?">>

\* line 164
SorryPrefix == <<"Sorry, there was an error processing your request: ">>

\* lines 100-102, for a response of status 500
StatusFailure ==
  <<"API request to /api/chat failed with status ", "500", ": ",
    "Internal Server Error", ". Please try again or check your connection.">>

\* line 105
BodyIsNull == <<"Response body is null">>

\* error.message of a rejected fetch and of a rejected reader.read
FetchFailure == <<"Failed to fetch">>
ReadFailure == <<"network error">>

\* error.message of the SyntaxError JSON.parse throws
ParseFailure == <<"Unexpected token">>

\* s.trim(): trimStart, and the same from the end
RECURSIVE TrimEnd(_)
TrimEnd(s) ==
  IF s # <<>> /\ s[Len(s)] \in WhiteSpace
    THEN TrimEnd(SubSeq(s, 1, Len(s) - 1))
    ELSE s

Trim(s) == TrimEnd(TrimStart(s))

\* lines 181-191
addMessageToChat(messages, role, content) ==
  Append(messages, [role |-> role, textContent |-> content])

\* lines 27-34: the messages with the new element, whose index is what the
\* caller keeps as assistantTextEl
createAssistantMessageElement(messages) ==
  Append(messages, [role |-> "assistant", textContent |-> <<>>])

(***************************************************************************)
(* An activation of sendMessage: where it is suspended (pc), its locals,   *)
(* the response body it reads from, and a record of what it did:           *)
(*   request     the messages of the request body (line 94)                *)
(*   body        the text of the response body not yet read                *)
(*   received    the text of the chunks read so far                        *)
(*   emitted     the payloads every consumeSseEvents call returned         *)
(*   ingested    the payloads passed to processSseDataChunk                *)
(*   flushes     every flushAssistantText call: the text it wrote and the  *)
(*               responseText of the processSseDataChunk call that made it *)
(*   batch       the payloads of the latest consumeSseEvents call          *)
(*   batchFrom   how many payloads had been ingested before that call      *)
(*   textBefore  responseText before that call                             *)
(*   flushesFrom how many flushAssistantText calls were made before it     *)
(*   error       the message of the error caught at line 159, if any       *)
(***************************************************************************)
NewCall(messages, history) ==
  [pc |-> "fetch", outcome |-> "pending",
   assistantTextEl |-> Len(messages),
   responseText |-> <<>>, buffer |-> <<>>,
   request |-> history, body |-> <<>>,
   received |-> <<>>, emitted |-> <<>>, ingested |-> <<>>, flushes |-> <<>>,
   batch |-> <<>>, batchFrom |-> 0, textBefore |-> <<>>, flushesFrom |-> 0,
   error |-> <<>>]

\* the locals of a call that has returned are gone; what is recorded of it is
\* kept until the next exchange begins
Forgotten(call) ==
  IF call.pc = "returned"
    THEN [NewCall(<<>>, <<>>) EXCEPT !.pc = "returned",
                                     !.outcome = call.outcome,
                                     !.assistantTextEl = call.assistantTextEl]
    ELSE call

\* lines 146-153 and 128-135: the for loop over parsed.events.  st carries the
\* loop's view of sendMessage's scope: responseText, the assistant element's
\* textContent, and the record of the calls made.  flushAssistantText (lines
\* 114-117) writes the responseText of sendMessage's scope, which line 148
\* assigns only after processSseDataChunk has returned.  An error thrown by
\* processSseDataChunk would leave the loop for the catch block of line 159.
RECURSIVE ProcessEventsContinue(_, _)
RECURSIVE ProcessEvents(_, _)

\* the loop with continue for the break of lines 129 and 147
ProcessEventsContinue(events, st) ==
  IF events = <<>> THEN st
  ELSE IF Head(events) = DoneMarker
    THEN ProcessEventsContinue(Tail(events), st)
  ELSE LET r == processSseDataChunk(Head(events), st.responseText)
       IN  ProcessEventsContinue(Tail(events),
             [st EXCEPT
                !.responseText = r.responseText,
                !.textContent = IF r.flushed THEN st.responseText ELSE @,
                !.ingested = Append(@, Head(events)),
                !.flushes =
                   IF r.flushed
                     THEN Append(@, [written |-> st.responseText,
                                     responseText |-> r.responseText])
                     ELSE @])

ProcessEvents(events, st) ==
  IF events = <<>> THEN st
  ELSE IF Head(events) = DoneMarker THEN st
  ELSE LET r == processSseDataChunk(Head(events), st.responseText)
       IN  IF r.threw
             THEN [st EXCEPT !.threw = TRUE,
                             !.ingested = Append(@, Head(events))]
             ELSE ProcessEvents(Tail(events),
                    [st EXCEPT
                       !.responseText = r.responseText,
                       !.textContent =
                          IF r.flushed THEN st.responseText ELSE @,
                       !.ingested = Append(@, Head(events)),
                       !.flushes =
                          IF r.flushed
                            THEN Append(@, [written |-> st.responseText,
                                            responseText |-> r.responseText])
                            ELSE @])

LoopState(call, messages) ==
  [responseText |-> call.responseText,
   textContent |-> messages[call.assistantTextEl].textContent,
   ingested |-> call.ingested, flushes |-> call.flushes, threw |-> FALSE]

\* the call after one pass of a loop that ingests nothing once a "[DONE]" has
\* been seen in an earlier pass
AfterEventsDoneSticky(call, parsed, st) ==
  LET seen == \E k \in DOMAIN call.emitted : call.emitted[k] = DoneMarker
  IN  [call EXCEPT !.emitted = @ \o parsed.events,
                   !.batch = parsed.events,
                   !.batchFrom = Len(call.ingested),
                   !.textBefore = call.responseText,
                   !.flushesFrom = Len(call.flushes),
                   !.responseText = IF seen THEN @ ELSE st.responseText,
                   !.ingested = IF seen THEN @ ELSE st.ingested,
                   !.flushes = IF seen THEN @ ELSE st.flushes]

\* the call after one pass of the loop over parsed.events
AfterEvents(call, parsed, st) ==
  [call EXCEPT !.emitted = @ \o parsed.events,
               !.batch = parsed.events,
               !.batchFrom = Len(call.ingested),
               !.textBefore = call.responseText,
               !.flushesFrom = Len(call.flushes),
               !.responseText = st.responseText,
               !.ingested = st.ingested,
               !.flushes = st.flushes]

(***************************************************************************)
(* What the environment supplies: what the user types, and the response    *)
(* bodies the server sends.                                                *)
(***************************************************************************)
\* the most activations of sendMessage a behaviour begins
MaxExchanges == 2

\* the most event records in a response body of RecordBodies
MaxRecords == 2

\* userInput.value as the user leaves it: nothing, white space only, a message
InputValues == {<<>>, <<SP>>, <<SP, "hi", LF>>}

\* JSON texts of the two payload shapes
JsonResponse(v) == ResponseOpen \o v \o ResponseClose
JsonChoices(v) == ChoicesOpen \o v \o ChoicesClose

\* Event records, each a sequence of lines: two deltas, the end marker, a
\* payload that does not parse (with carriage returns in odd places), a
\* comment alone, and a payload on two data lines after a comment
R_Hel == <<DataPrefix \o <<SP>> \o JsonResponse(Quoted(<<"H", "e", "l">>))>>
R_lo == <<DataPrefix \o JsonResponse(Quoted(<<"l", "o">>))>>
R_Done == <<DataPrefix \o <<SP>> \o DoneMarker>>
R_NotJson ==
  <<<<"d", "a", CR, "t", "a", ":", SP, "{", "n", "o", "t", CR, SP, "j", "s", "o", "n">>>>
R_Comment == <<<<":", "k">>>>
R_Choices ==
  <<<<":", "k">>,
    DataPrefix \o <<SP, SP>> \o ChoicesHead,
    DataPrefix \o ContentOpen \o <<SP>> \o Quoted(<<"!">>) \o ChoicesClose>>

RecordSet == {R_Hel, R_Done, R_NotJson, R_Comment, R_Choices}

\* the lines of a record, each ended by eol
RECURSIVE Lines(_, _)
Lines(record, eol) ==
  IF record = <<>> THEN <<>>
  ELSE Head(record) \o eol \o Lines(Tail(record), eol)

\* the text of a body: every record's lines and a blank line after it
RECURSIVE BodyText(_, _)
BodyText(records, eol) ==
  IF records = <<>> THEN <<>>
  ELSE Lines(Head(records), eol) \o eol \o BodyText(Tail(records), eol)

SeqsUpTo(S, n) == UNION {[1..k -> S] : k \in 0..n}

Eols == {<<LF>>, <<CR, LF>>}

\* how many line ends the end of a body may lack: none, the blank line after
\* the last record, or that and the end of the record's last line
Shorts == {0, 1, 2}

CutEnd(s, eol, short) ==
  IF short = 0 \/ s = <<>> THEN s
  ELSE SubSeq(s, 1, Len(s) - short * Len(eol))

RecordBodies ==
  {CutEnd(BodyText(rs, eol), eol, short) :
     rs \in SeqsUpTo(RecordSet, MaxRecords), eol \in Eols, short \in Shorts}

\* payloads of every kind lines 241-258 tell apart
Payloads ==
  {JsonResponse(Quoted(<<"l", "o">>)),
   ResponseOpen \o <<SP>> \o Quoted(<<"l", "o">>) \o <<SP>> \o ResponseClose \o <<SP>>,
   JsonResponse(Quoted(<<>>)),
   JsonResponse(<<"5">>),
   JsonChoices(Quoted(<<"!">>)),
   JsonChoices(Quoted(<<>>)),
   JsonChoices(<<"5">>),
   JsonChoices(<<"0">>),
   JsonChoices(W_true),
   JsonChoices(W_false),
   JsonChoices(W_null),
   ChoicesNoContent,
   <<"{", "}">>,
   W_null,
   <<"1", SP, "2">>}

\* a delta, then one payload
PayloadBodies ==
  {BodyText(<<R_Hel, <<DataPrefix \o <<SP>> \o p>>>>, <<LF>>) : p \in Payloads}

Bodies == RecordBodies \cup PayloadBodies

\* the body of the sessions of Spec: two events, the second not ended
SessionBodies ==
  {CutEnd(BodyText(<<R_Hel, R_lo>>, <<CR, LF>>), <<CR, LF>>, 2)}

\* the responses fetch resolves with: [ok, hasBody, body]
Responses(bodies) ==
  {[ok |-> TRUE, hasBody |-> TRUE, body |-> b] : b \in bodies}
    \cup {[ok |-> FALSE, hasBody |-> TRUE, body |-> <<>>],
          [ok |-> TRUE, hasBody |-> FALSE, body |-> <<>>]}

(***************************************************************************)
(* Actions: sendMessage runs from one await to the next without            *)
(* interruption, so each action is one such stretch.                       *)
(***************************************************************************)
Init ==
  /\ chatHistory = <<[role |-> "assistant", content |-> Greeting]>>
  /\ isProcessing = FALSE
  /\ userInput = [value |-> <<>>, disabled |-> FALSE]
  /\ sendButton = [disabled |-> FALSE]
  /\ typingIndicator = [visible |-> FALSE]
  /\ chatMessages = <<>>
  /\ calls = <<>>
  /\ turnedAway = FALSE

\* userInput.value is assigned: the user edits the text area, or a script
\* does, which the disabled attribute does not prevent
Input ==
  /\ \E v \in InputValues : userInput' = [userInput EXCEPT !.value = v]
  /\ UNCHANGED <<chatHistory, isProcessing, sendButton, typingIndicator,
                 chatMessages, calls, turnedAway>>

\* line 60 without || isProcessing
IgnoresEmptyOnly(message, processing) == message = <<>>

\* line 60: the condition of the early return
Ignores(message, processing) == message = <<>> \/ processing

\* lines 56-96: sendMessage up to await fetch
sendMessage ==
  LET message == Trim(userInput.value)
      history == Append(chatHistory, [role |-> "user", content |-> message])
      messages ==
        createAssistantMessageElement(
          addMessageToChat(chatMessages, "user", message))
  IN  IF Ignores(message, isProcessing)
        THEN /\ turnedAway' = (turnedAway \/ message # <<>>)
             /\ UNCHANGED <<chatHistory, isProcessing, userInput, sendButton,
                            typingIndicator, chatMessages, calls>>
        ELSE /\ Len(calls) < MaxExchanges
             /\ turnedAway' = FALSE
             /\ isProcessing' = TRUE
             /\ userInput' = [value |-> <<>>, disabled |-> TRUE]
             /\ sendButton' = [disabled |-> TRUE]
             /\ typingIndicator' = [visible |-> TRUE]
             /\ chatHistory' = history
             /\ chatMessages' = messages
             /\ calls' = Append([i \in DOMAIN calls |-> Forgotten(calls[i])],
                                NewCall(messages, history))

\* lines 43-48: keydown in the text area, of Enter
Keydown ==
  \E shiftKey \in BOOLEAN :
    IF ~shiftKey THEN sendMessage ELSE UNCHANGED vars

\* line 51: click on the send button
Click == sendMessage

\* lines 166-175: the finally block
Finally ==
  /\ typingIndicator' = [visible |-> FALSE]
  /\ isProcessing' = FALSE
  /\ userInput' = [userInput EXCEPT !.disabled = FALSE]
  /\ sendButton' = [disabled |-> FALSE]

\* the catch block that logs the error and shows nothing
CatchSilent(i, call, messages, errorMessage) ==
  /\ chatMessages' = messages
  /\ calls' = [calls EXCEPT ![i] = [call EXCEPT !.pc = "returned",
                                                !.outcome = "failed",
                                                !.error = errorMessage]]
  /\ Finally
  /\ UNCHANGED <<chatHistory, turnedAway>>

\* the catch block with the statements of the finally block moved to the end
\* of the try block
CatchNoFinally(i, call, messages, errorMessage) ==
  /\ chatMessages' =
       addMessageToChat(messages, "assistant", SorryPrefix \o errorMessage)
  /\ calls' = [calls EXCEPT ![i] = [call EXCEPT !.pc = "returned",
                                                !.outcome = "failed",
                                                !.error = errorMessage]]
  /\ UNCHANGED <<chatHistory, turnedAway, typingIndicator, isProcessing,
                 userInput, sendButton>>

\* lines 159-175: the catch block and the finally block, for call i with the
\* locals and record `call` and the messages it had when the error was thrown
Catch(i, call, messages, errorMessage) ==
  /\ chatMessages' =
       addMessageToChat(messages, "assistant", SorryPrefix \o errorMessage)
  /\ calls' = [calls EXCEPT ![i] = [call EXCEPT !.pc = "returned",
                                                !.outcome = "failed",
                                                !.error = errorMessage]]
  /\ Finally
  /\ UNCHANGED <<chatHistory, turnedAway>>

\* lines 88-109: fetch resolves
FetchResolve(i, bodies) ==
  /\ calls[i].pc = "fetch"
  /\ \E response \in Responses(bodies) :
       IF ~response.ok
         THEN Catch(i, calls[i], chatMessages, StatusFailure)
       ELSE IF ~response.hasBody
         THEN Catch(i, calls[i], chatMessages, BodyIsNull)
       ELSE /\ calls' = [calls EXCEPT ![i].pc = "read",
                                      ![i].body = response.body]
            /\ UNCHANGED <<chatHistory, isProcessing, userInput, sendButton,
                           typingIndicator, chatMessages, turnedAway>>

\* line 88: fetch rejects
FetchReject(i) ==
  /\ calls[i].pc = "fetch"
  /\ Catch(i, calls[i], chatMessages, FetchFailure)

\* the longest chunk that ends anywhere
MaxChunk == 2

\* the first n characters of body end with a blank line
EndsEvent(body, n) ==
  /\ n >= 2
  /\ body[n] = LF
  /\ \/ body[n - 1] = LF
     \/ n >= 3 /\ body[n - 1] = CR /\ body[n - 2] = LF

\* the sizes of the chunk reader.read may resolve with, for a body of which
\* `body` is still unread.  decoder.decode(value, {stream: true}) gives the
\* text of the bytes read, keeping back an unfinished character, so the chunks
\* of text are a cutting of the body's text, and one may be empty.  A chunk
\* is the rest of the body, or ends with a blank line (any number of whole
\* events), or is at most MaxChunk characters long: every cut point is
\* reached, and every grouping of events into chunks.
ChunkSizes(body) ==
  {n \in 0..Len(body) : n <= MaxChunk \/ n = Len(body) \/ EndsEvent(body, n)}

\* line 140 with = for +=
ChunkEventsAssign(buffer, chunk) == consumeSseEvents(chunk)

\* lines 140-144 with the buffer left as appended to when no event is complete
ChunkEventsKeepRaw(buffer, chunk) ==
  LET parsed == consumeSseEvents(buffer \o chunk)
  IN  IF parsed.events = <<>>
        THEN [events |-> <<>>, buffer |-> buffer \o chunk]
        ELSE parsed

\* line 143: the events of the buffer with the chunk appended
ChunkEvents(buffer, chunk) == consumeSseEvents(buffer \o chunk)

\* line 127 without the "\n\n" appended
FinalEventsAsIs(buffer) == consumeSseEvents(buffer)

\* line 127: the events of the buffer at the end of the stream
FinalEvents(buffer) == consumeSseEvents(buffer \o EventTerminator)

\* the assistant element of the call with the text the loop left in it
Shown(call, messages, st) ==
  [messages EXCEPT ![call.assistantTextEl].textContent = st.textContent]

\* lines 121, 139-153: reader.read resolves with a chunk
ReadChunk(i) ==
  /\ calls[i].pc = "read"
  /\ \E n \in ChunkSizes(calls[i].body) :
       LET call   == calls[i]
           chunk  == SubSeq(call.body, 1, n)
           parsed == ChunkEvents(call.buffer, chunk)
           st     == ProcessEvents(parsed.events, LoopState(call, chatMessages))
           read   == [AfterEvents(call, parsed, st) EXCEPT
                        !.body = SubSeq(call.body, n + 1, Len(call.body)),
                        !.received = @ \o chunk,
                        !.buffer = parsed.buffer]
       IN  IF st.threw
             THEN Catch(i, read, Shown(call, chatMessages, st), ParseFailure)
             ELSE /\ calls' = [calls EXCEPT ![i] = read]
                  /\ chatMessages' = Shown(call, chatMessages, st)
                  /\ UNCHANGED <<chatHistory, isProcessing, userInput,
                                 sendButton, typingIndicator, turnedAway>>

\* lines 121-137, 156-157, 166-175: reader.read resolves with done
ReadDone(i) ==
  /\ calls[i].pc = "read"
  /\ calls[i].body = <<>>
  /\ LET call   == calls[i]
         parsed == FinalEvents(call.buffer)
         st     == ProcessEvents(parsed.events, LoopState(call, chatMessages))
         read   == AfterEvents(call, parsed, st)
     IN  IF st.threw
           THEN Catch(i, read, Shown(call, chatMessages, st), ParseFailure)
           ELSE /\ calls' = [calls EXCEPT
                               ![i] = [read EXCEPT !.pc = "returned",
                                                   !.outcome = "completed"]]
                /\ chatMessages' = Shown(call, chatMessages, st)
                /\ chatHistory' =
                     Append(chatHistory,
                            [role |-> "assistant", content |-> st.responseText])
                /\ Finally
                /\ UNCHANGED turnedAway

\* the rejection handled by pushing what was accumulated to the history
\* before the error is shown
ReadRejectSalvage(i) ==
  /\ calls[i].pc = "read"
  /\ chatMessages' =
       addMessageToChat(chatMessages, "assistant", SorryPrefix \o ReadFailure)
  /\ calls' = [calls EXCEPT ![i] = [calls[i] EXCEPT !.pc = "returned",
                                                    !.outcome = "failed",
                                                    !.error = ReadFailure]]
  /\ chatHistory' =
       Append(chatHistory,
              [role |-> "assistant", content |-> calls[i].responseText])
  /\ Finally
  /\ UNCHANGED turnedAway

\* line 121: reader.read rejects
ReadReject(i) ==
  /\ calls[i].pc = "read"
  /\ Catch(i, calls[i], chatMessages, ReadFailure)

Fetched == \E i \in DOMAIN calls : FetchResolve(i, SessionBodies)
FetchedStream == \E i \in DOMAIN calls : FetchResolve(i, Bodies)
FetchFailed == \E i \in DOMAIN calls : FetchReject(i)
Read == \E i \in DOMAIN calls : ReadChunk(i)
ReadEnd == \E i \in DOMAIN calls : ReadDone(i)
ReadFailed == \E i \in DOMAIN calls : ReadReject(i)

\* the whole program, with the body of SessionBodies
Next ==
  \/ Input
  \/ Keydown
  \/ Click
  \/ Fetched
  \/ FetchFailed
  \/ Read
  \/ ReadEnd
  \/ ReadFailed

Spec == Init /\ [][Next]_vars

\* the transport resolves or rejects every pending fetch and read
FairSpec ==
  /\ Spec
  /\ WF_vars(Fetched \/ FetchFailed)
  /\ WF_vars(ReadFailed \/ ReadEnd \/ Read)

\* one exchange, with the bodies of Bodies: the user has typed a message and
\* types nothing more
InitStreams ==
  /\ chatHistory = <<[role |-> "assistant", content |-> Greeting]>>
  /\ isProcessing = FALSE
  /\ userInput = [value |-> <<"hi">>, disabled |-> FALSE]
  /\ sendButton = [disabled |-> FALSE]
  /\ typingIndicator = [visible |-> FALSE]
  /\ chatMessages = <<>>
  /\ calls = <<>>
  /\ turnedAway = FALSE

NextStreams ==
  \/ Click
  \/ FetchedStream
  \/ FetchFailed
  \/ Read
  \/ ReadEnd
  \/ ReadFailed

SpecStreams == InitStreams /\ [][NextStreams]_vars

(***************************************************************************)
(* Properties.                                                             *)
(***************************************************************************)
\* what is recorded of the call has not been forgotten
Kept(call) == call.request # <<>>

Completed(call) == Kept(call) /\ call.outcome = "completed"

\* the payloads of the read loop fed with the whole text as one chunk and then
\* the end of the stream
WholeTextEvents(text) ==
  LET first == ChunkEvents(<<>>, text)
  IN  first.events \o FinalEvents(first.buffer).events

\* the delta of a payload: what processSseDataChunk appends to the empty string
DeltaOf(payload) == processSseDataChunk(payload, <<>>).responseText

RECURSIVE Deltas(_)
Deltas(payloads) ==
  IF payloads = <<>> THEN <<>>
  ELSE <<DeltaOf(Head(payloads))>> \o Deltas(Tail(payloads))

\* the index of the first "[DONE]" of a batch, 0 when it has none
DoneIndex(batch) ==
  LET hits == {k \in DOMAIN batch : batch[k] = DoneMarker}
  IN  IF hits = {} THEN 0 ELSE CHOOSE k \in hits : \A j \in hits : k <= j

\* the payloads of a batch before its first "[DONE]"
BeforeDone(batch) ==
  IF DoneIndex(batch) = 0 THEN batch
  ELSE SubSeq(batch, 1, DoneIndex(batch) - 1)

\* what the latest pass of the loop ingested, and how often it flushed
LatestIngested(call) == SubSeq(call.ingested, call.batchFrom + 1, Len(call.ingested))
LatestFlushes(call) == Len(call.flushes) - call.flushesFrom

NonEmpty(texts) == SelectSeq(texts, LAMBDA t : t # <<>>)

\* C1: however the text received is cut into chunks, the payloads emitted are
\* those of the same text fed as one chunk: while the call reads, those of the
\* text so far; once it has completed, those of one chunk and the
\* end-of-stream pass.
C1_ChunkingInvariance ==
  \A i \in DOMAIN calls :
    /\ calls[i].pc = "read" =>
         calls[i].emitted = ChunkEvents(<<>>, calls[i].received).events
    /\ Completed(calls[i]) =>
         calls[i].emitted = WholeTextEvents(calls[i].received)

\* a chunk has ended between the two line feeds of a blank line, after an
\* earlier event was emitted
C1_Witness ==
  \E i \in DOMAIN calls :
    /\ calls[i].pc = "read"
    /\ calls[i].emitted # <<>>
    /\ calls[i].buffer # <<>>
    /\ calls[i].buffer[Len(calls[i].buffer)] = LF
    /\ calls[i].body # <<>>
    /\ Head(calls[i].body) = LF

\* C2: every flushAssistantText call writes the full current ResponseText,
\* the delta that caused the call included.
C2_FlushShowsCurrentText ==
  \A i \in DOMAIN calls :
    \A k \in DOMAIN calls[i].flushes :
      calls[i].flushes[k].written = calls[i].flushes[k].responseText

\* C3: the ResponseText of a call is the concatenation, in order, of the
\* deltas of the payloads it has ingested, none of which is "[DONE]".
C3_AccumulatorInvariant ==
  \A i \in DOMAIN calls :
    Kept(calls[i]) =>
      /\ calls[i].responseText = Concat(Deltas(calls[i].ingested))
      /\ \A k \in DOMAIN calls[i].ingested : calls[i].ingested[k] # DoneMarker

\* two or more payloads ingested, one of them with an empty delta, and text
\* accumulated
C3_Witness ==
  \E i \in DOMAIN calls :
    /\ Len(calls[i].ingested) >= 2
    /\ calls[i].responseText # <<>>
    /\ \E k \in DOMAIN calls[i].ingested : DeltaOf(calls[i].ingested[k]) = <<>>

\* C4: of a batch with a "[DONE]", exactly the payloads before the first
\* "[DONE]" are ingested: ResponseText grows by their deltas and the display is
\* flushed once for each of them that is not empty.
C4_DoneEndsBatch ==
  \A i \in DOMAIN calls :
    DoneIndex(calls[i].batch) # 0 =>
      /\ LatestIngested(calls[i]) = BeforeDone(calls[i].batch)
      /\ calls[i].responseText =
           calls[i].textBefore \o Concat(Deltas(BeforeDone(calls[i].batch)))
      /\ LatestFlushes(calls[i]) =
           Len(NonEmpty(Deltas(BeforeDone(calls[i].batch))))

\* a batch with a payload of non-empty delta after its "[DONE]"
C4_Witness ==
  \E i \in DOMAIN calls :
    LET d == DoneIndex(calls[i].batch)
    IN  /\ d # 0
        /\ d < Len(calls[i].batch)
        /\ DeltaOf(calls[i].batch[d + 1]) # <<>>

\* the delta the extraction policy gives for a parsed value: the response
\* field when it is a non-empty string, otherwise choices[0].delta.content
\* when it is a truthy string, otherwise the empty delta
PolicyDelta(jsonData) ==
  IF jsonData.response.type = "string" /\ jsonData.response.text # <<>>
    THEN jsonData.response.text
  ELSE IF jsonData.content.type = "string" /\ jsonData.content.truthy
    THEN jsonData.content.text
  ELSE <<>>

\* C5: for every ingested payload that parses, processSseDataChunk appends
\* the delta of the extraction policy, and flushes exactly when it is not
\* empty; a content that is not a string contributes nothing.
C5_DeltaPolicy ==
  \A i \in DOMAIN calls :
    \A k \in DOMAIN calls[i].ingested :
      LET payload == calls[i].ingested[k]
      IN  ~JSONparse(payload).threw =>
            processSseDataChunk(payload, <<>>) =
              Returned(PolicyDelta(JSONparse(payload)),
                       PolicyDelta(JSONparse(payload)) # <<>>)

Parses(payload) == ~JSONparse(payload).threw

\* C6: a payload that does not parse raises nothing to the read loop, and the
\* batch it is in is ingested as if it were not there: every payload before
\* the first "[DONE]" is ingested, ResponseText grows by the deltas of those
\* that parse, and the display is flushed once for each non-empty one of them.
C6_MalformedPayloadSkipped ==
  \A i \in DOMAIN calls :
    /\ calls[i].error # ParseFailure
    /\ Kept(calls[i]) =>
         LET parsing == SelectSeq(BeforeDone(calls[i].batch), Parses)
         IN  /\ LatestIngested(calls[i]) = BeforeDone(calls[i].batch)
             /\ calls[i].responseText =
                  calls[i].textBefore \o Concat(Deltas(parsing))
             /\ LatestFlushes(calls[i]) = Len(NonEmpty(Deltas(parsing)))

\* a batch in which a payload that does not parse is followed by an ingested
\* payload of non-empty delta
C6_Witness ==
  \E i \in DOMAIN calls :
    \E k \in DOMAIN calls[i].batch :
      /\ k < Len(BeforeDone(calls[i].batch))
      /\ ~Parses(calls[i].batch[k])
      /\ DeltaOf(calls[i].batch[k + 1]) # <<>>
      /\ calls[i].responseText # calls[i].textBefore

\* the payload of the text of one record: its data lines joined
RecordPayload(record) == JoinLines(DataLines(SplitLines(record)))

HasDataLine(record) == DataLines(SplitLines(record)) # <<>>

\* C7: when a call completes, a pending buffer with a data line has been
\* surfaced as exactly one payload, that of the buffer taken as a record, and
\* ingested (unless it is "[DONE]") into the ResponseText that is appended to
\* the history; a pending buffer without a data line, an empty one included,
\* has yielded no payload.
C7_FinalRecordSurfaced ==
  \A i \in DOMAIN calls :
    Completed(calls[i]) =>
      IF HasDataLine(calls[i].buffer)
        THEN LET payload == RecordPayload(calls[i].buffer)
             IN  /\ calls[i].batch = <<payload>>
                 /\ LatestIngested(calls[i]) =
                      (IF payload = DoneMarker THEN <<>> ELSE <<payload>>)
                 /\ calls[i].responseText =
                      calls[i].textBefore \o DeltaOf(payload)
                 /\ chatHistory[Len(chatHistory)] =
                      [role |-> "assistant", content |-> calls[i].responseText]
        ELSE /\ calls[i].batch = <<>>
             /\ calls[i].responseText = calls[i].textBefore

\* a call completed whose pending buffer held a record of non-empty delta
C7_Witness ==
  \E i \in DOMAIN calls :
    /\ Completed(calls[i])
    /\ HasDataLine(calls[i].buffer)
    /\ calls[i].responseText # calls[i].textBefore
    /\ calls[i].textBefore # <<>>

\* C8: the payloads emitted and the pending buffer are those of the text
\* received with every carriage return removed, fed as one chunk.
C8_CarriageReturnsImmaterial ==
  \A i \in DOMAIN calls :
    /\ calls[i].pc = "read" =>
         /\ calls[i].emitted =
              ChunkEvents(<<>>, StripCR(calls[i].received)).events
         /\ calls[i].buffer =
              ChunkEvents(<<>>, StripCR(calls[i].received)).buffer
    /\ Completed(calls[i]) =>
         calls[i].emitted = WholeTextEvents(StripCR(calls[i].received))

\* a chunk has ended before the carriage return between the two line feeds of
\* a blank line, after an earlier event was emitted with carriage returns in it
C8_Witness ==
  \E i \in DOMAIN calls :
    /\ calls[i].pc = "read"
    /\ calls[i].emitted # <<>>
    /\ calls[i].received # StripCR(calls[i].received)
    /\ calls[i].buffer # <<>>
    /\ calls[i].buffer[Len(calls[i].buffer)] = LF
    /\ Len(calls[i].body) >= 2
    /\ calls[i].body[1] = CR
    /\ calls[i].body[2] = LF

\* the input and the send button take the user's next message
InputEnabled == ~userInput.disabled /\ ~sendButton.disabled

\* C9: when the transport resolves or rejects every pending fetch and read,
\* an exchange that has set isProcessing is followed by a state in which
\* isProcessing is false and the input and the send button are enabled.
C9_ProcessingReleased == isProcessing ~> (~isProcessing /\ InputEnabled)

\* a read has rejected in the middle of a stream, and the flag is released
C9_Witness ==
  /\ ~isProcessing
  /\ InputEnabled
  /\ \E i \in DOMAIN calls :
       /\ calls[i].error = ReadFailure
       /\ calls[i].received # <<>>
       /\ calls[i].body # <<>>

\* the activations of sendMessage that wait for fetch or for reader.read
InFlight == {i \in DOMAIN calls : calls[i].pc \in {"fetch", "read"}}

\* C10: a sendMessage begun by a click or by the Enter key while isProcessing
\* is true changes nothing of the page, of the history or of the exchange in
\* flight, and at most one activation waits for its fetch or its read.
C10_OneExchangeInFlight ==
  [][/\ (isProcessing /\ (Click \/ Keydown)) =>
          UNCHANGED <<chatHistory, isProcessing, userInput, sendButton,
                      typingIndicator, chatMessages, calls>>
     /\ Cardinality(InFlight') <= 1]_vars

\* a message was sent while an exchange was reading its stream, and was
\* turned away
C10_Witness ==
  /\ isProcessing
  /\ turnedAway
  /\ Cardinality(InFlight) = 1
  /\ \E i \in InFlight : calls[i].pc = "read" /\ calls[i].received # <<>>
  /\ userInput.value # <<>>

\* the call was aborted at line 100 or at line 105
Refused(call) == call.error \in {StatusFailure, BodyIsNull}

\* C11: after a response with a status that is not a success, or without a
\* body, no chunk has been read and no payload ingested, the conversation
\* has got exactly one more message after the assistant element of the call,
\* which is the error message, and the input is enabled again.
C11_RefusedResponseAborts ==
  \A i \in DOMAIN calls :
    Refused(calls[i]) =>
      /\ calls[i].pc = "returned" /\ calls[i].outcome = "failed"
      /\ calls[i].received = <<>>
      /\ calls[i].emitted = <<>>
      /\ calls[i].ingested = <<>>
      /\ calls[i].responseText = <<>>
      /\ Len(chatMessages) = calls[i].assistantTextEl + 1
      /\ chatMessages[Len(chatMessages)] =
           [role |-> "assistant",
            textContent |-> SorryPrefix \o calls[i].error]
      /\ chatMessages[calls[i].assistantTextEl].textContent = <<>>
      /\ ~isProcessing
      /\ InputEnabled
      /\ ~typingIndicator.visible

\* the second exchange of a session was refused for its status
C11_Witness ==
  \E i \in DOMAIN calls :
    /\ i > 1
    /\ calls[i].error = StatusFailure
    /\ ~isProcessing

\* the texts accumulated from acc by appending the deltas one after another
RECURSIVE Running(_, _)
Running(deltas, acc) ==
  IF deltas = <<>> THEN <<>>
  ELSE <<acc \o Head(deltas)>> \o Running(Tail(deltas), acc \o Head(deltas))

\* the ResponseText each flushAssistantText call of a call was made for
FlushedFor(call) ==
  [k \in DOMAIN call.flushes |-> call.flushes[k].responseText]

\* C12: the calls of flushAssistantText are, in order, one for each ingested
\* payload of non-empty delta, each made when ResponseText had grown by that
\* delta; none is made for a payload of empty delta.
C12_FlushPerDelta ==
  \A i \in DOMAIN calls :
    Kept(calls[i]) =>
      FlushedFor(calls[i]) =
        Running(NonEmpty(Deltas(calls[i].ingested)), <<>>)

\* a payload of empty delta was ingested, then one of non-empty delta, and
\* there was one flush
C12_Witness ==
  \E i \in DOMAIN calls :
    /\ Len(calls[i].ingested) = 2
    /\ DeltaOf(calls[i].ingested[1]) = <<>>
    /\ DeltaOf(calls[i].ingested[2]) # <<>>
    /\ Len(calls[i].flushes) = 1

\* C13: after reader.read has rejected, nothing of the pending buffer has
\* been emitted or ingested (the payloads are those of the chunks alone and
\* the buffer is what the last chunk left), and the history is the one sent
\* in the request, whose last entry is the user entry of the exchange: no
\* assistant entry was appended.
C13_ReadFailureDropsPartial ==
  \A i \in DOMAIN calls :
    calls[i].error = ReadFailure =>
      /\ calls[i].pc = "returned" /\ calls[i].outcome = "failed"
      /\ calls[i].emitted = ChunkEvents(<<>>, calls[i].received).events
      /\ calls[i].buffer = ChunkEvents(<<>>, calls[i].received).buffer
      /\ Len(calls[i].ingested) <= Len(calls[i].emitted)
      /\ \A k \in DOMAIN calls[i].ingested :
           \E j \in DOMAIN calls[i].emitted :
             calls[i].emitted[j] = calls[i].ingested[k]
      /\ chatHistory = calls[i].request
      /\ chatHistory[Len(chatHistory)].role = "user"

\* reader.read rejected when text had been accumulated and the pending
\* buffer held an unterminated record with a data line
C13_Witness ==
  \E i \in DOMAIN calls :
    /\ calls[i].error = ReadFailure
    /\ calls[i].responseText # <<>>
    /\ HasDataLine(calls[i].buffer)
    /\ DeltaOf(RecordPayload(calls[i].buffer)) # <<>>

\* call i is reading before and after the step
ReadsOn(i) ==
  /\ i \in DOMAIN calls'
  /\ calls[i].pc = "read"
  /\ calls'[i].pc = "read"

\* the chunk call i received in the step, empty when it received none
ChunkOf(i) ==
  SubSeq(calls'[i].received, Len(calls[i].received) + 1,
         Len(calls'[i].received))

\* the step emitted nothing and appended the chunk, without its carriage
\* returns, to the pending buffer
OnlyGrows(i) ==
  /\ calls'[i].emitted = calls[i].emitted
  /\ calls'[i].buffer = calls[i].buffer \o StripCR(ChunkOf(i))

\* C14, as claimed: a chunk that has, without its carriage returns, no two
\* consecutive line feeds emits no payload and only grows the pending buffer,
\* whatever the pending buffer is.
C14_ChunkWithoutTerminator ==
  [][\A i \in DOMAIN calls :
       (ReadsOn(i) /\ IndexOfTerminator(StripCR(ChunkOf(i))) = -1)
          => OnlyGrows(i)]_vars

\* C14, amended: a chunk that completes no terminator, the pending buffer
\* followed by the chunk without its carriage returns having no two
\* consecutive line feeds, emits no payload and only grows the pending
\* buffer; so does the empty chunk, which leaves the buffer unchanged.
C14_ChunkCompletingNoTerminator ==
  [][\A i \in DOMAIN calls :
       (ReadsOn(i) /\
          IndexOfTerminator(calls[i].buffer \o StripCR(ChunkOf(i))) = -1)
          => OnlyGrows(i)]_vars

\* chunks with carriage returns have grown the pending buffer past a line
\* feed and nothing has been emitted
C14_Witness ==
  \E i \in DOMAIN calls :
    /\ calls[i].pc = "read"
    /\ calls[i].emitted = <<>>
    /\ calls[i].received # StripCR(calls[i].received)
    /\ calls[i].buffer = StripCR(calls[i].received)
    /\ \E k \in 1..(Len(calls[i].buffer) - 1) : calls[i].buffer[k] = LF

\* the text has no two consecutive line feeds and no carriage return
Exhausted(text) ==
  /\ IndexOfTerminator(text) = -1
  /\ \A k \in DOMAIN text : text[k] # CR

\* C15: between chunk arrivals the pending buffer has no two consecutive
\* line feeds and no carriage return, and neither has the buffer the
\* end-of-stream call of consumeSseEvents returns.
C15_ExtractionExhaustive ==
  \A i \in DOMAIN calls :
    /\ calls[i].pc = "read" => Exhausted(calls[i].buffer)
    /\ Completed(calls[i]) =>
         /\ Exhausted(calls[i].buffer)
         /\ Exhausted(FinalEvents(calls[i].buffer).buffer)

\* one call of consumeSseEvents has taken two events from a buffer that had
\* the beginning of the first, of a text with carriage returns
C15_Witness ==
  \E i \in DOMAIN calls :
    /\ calls[i].pc = "read"
    /\ Len(calls[i].batch) >= 2
    /\ calls[i].emitted = calls[i].batch
    /\ Len(calls[i].received) > Len(calls[i].body)
    /\ calls[i].received # StripCR(calls[i].received)

\* what each record of RecordSet is to give: no payload for the comment, and
\* otherwise one, the texts after "data:" of its data lines, without leading
\* white space and without carriage returns, joined by line feeds
PayloadsOfRecord(record) ==
  CASE record = R_Hel -> <<JsonResponse(Quoted(<<"H", "e", "l">>))>>
    [] record = R_Done -> <<DoneMarker>>
    [] record = R_NotJson -> <<<<"{", "n", "o", "t", SP, "j", "s", "o", "n">>>>
    [] record = R_Comment -> <<>>
    [] record = R_Choices ->
         <<ChoicesHead \o <<LF>> \o ContentOpen \o <<SP>> \o Quoted(<<"!">>)
             \o ChoicesClose>>

RECURSIVE PayloadsOfRecords(_)
PayloadsOfRecords(records) ==
  IF records = <<>> THEN <<>>
  ELSE PayloadsOfRecord(Head(records)) \o PayloadsOfRecords(Tail(records))

\* the whole body has been received and the end of the stream not yet seen
AllReceived(call) == call.pc = "read" /\ call.body = <<>>

\* C16: when the text received is a sequence of terminated records, the
\* payloads emitted are, in the order of the records and with repetitions
\* kept, one for each record that has a data line, and none for a record
\* that has none.
C16_PayloadPerDataRecord ==
  \A i \in DOMAIN calls :
    AllReceived(calls[i]) =>
      \A rs \in SeqsUpTo(RecordSet, MaxRecords) :
        \A eol \in Eols :
          calls[i].received = BodyText(rs, eol) =>
            calls[i].emitted = PayloadsOfRecords(rs)

\* a comment record and a record of a comment and two data lines have been
\* received, with CRLF line ends, and one payload emitted
C16_Witness ==
  \E i \in DOMAIN calls :
    /\ AllReceived(calls[i])
    /\ calls[i].received = BodyText(<<R_Comment, R_Choices>>, <<CR, LF>>)
    /\ Len(calls[i].emitted) = 1

\* a "[DONE]" was emitted in a pass before the latest one
SawDoneEarlier(call) ==
  \E k \in 1..(Len(call.emitted) - Len(call.batch)) :
    call.emitted[k] = DoneMarker

\* C17: a "[DONE]" does not end the exchange: a call that has emitted one
\* and has not failed goes on reading until the end of the stream, and of
\* every later pass, the end-of-stream pass included, the payloads before
\* that pass's first "[DONE]" are ingested into ResponseText.
C17_DoneStopsBatchOnly ==
  \A i \in DOMAIN calls :
    /\ (/\ \E k \in DOMAIN calls[i].emitted : calls[i].emitted[k] = DoneMarker
        /\ calls[i].body # <<>>
        /\ calls[i].error = <<>>) => calls[i].pc = "read"
    /\ SawDoneEarlier(calls[i]) =>
         /\ LatestIngested(calls[i]) = BeforeDone(calls[i].batch)
         /\ calls[i].responseText =
              calls[i].textBefore \o Concat(Deltas(BeforeDone(calls[i].batch)))

\* a payload of non-empty delta was ingested in a pass after the one that
\* met "[DONE]"
C17_Witness ==
  \E i \in DOMAIN calls :
    /\ SawDoneEarlier(calls[i])
    /\ LatestIngested(calls[i]) # <<>>
    /\ calls[i].responseText # calls[i].textBefore

\* the loop's view of a call that has ingested nothing yet
FreshLoopState ==
  [responseText |-> <<>>, textContent |-> <<>>, ingested |-> <<>>,
   flushes |-> <<>>, threw |-> FALSE]

\* the ResponseText of the exchange that receives the text as one chunk and
\* then the end of the stream
OneChunkText(text) ==
  LET first == ChunkEvents(<<>>, text)
      st    == ProcessEvents(first.events, FreshLoopState)
  IN  ProcessEvents(FinalEvents(first.buffer).events, st).responseText

\* C18: the ResponseText a completed exchange appends to the history is the
\* same however the stream was cut into chunks: it is that of the exchange
\* that gets the stream as one chunk.
C18_FinalTextChunkingInvariant ==
  \A i \in DOMAIN calls :
    Completed(calls[i]) =>
      calls[i].responseText = OneChunkText(calls[i].received)

\* C19: when an exchange has completed, the text of its assistant message
\* element is the ResponseText appended to the history as the assistant
\* entry.
C19_DisplayMatchesHistory ==
  \A i \in DOMAIN calls :
    Completed(calls[i]) =>
      /\ chatHistory[Len(chatHistory)] =
           [role |-> "assistant", content |-> calls[i].responseText]
      /\ chatMessages[calls[i].assistantTextEl].textContent =
           calls[i].responseText

\* C20: no two consecutive entries of the chat history have the same role,
\* and so none of the message lists sent in a request has.
C20_HistoryAlternates ==
  /\ \A k \in 1..(Len(chatHistory) - 1) :
       chatHistory[k].role # chatHistory[k + 1].role
  /\ \A i \in DOMAIN calls :
       \A k \in 1..(Len(calls[i].request) - 1) :
         calls[i].request[k].role # calls[i].request[k + 1].role

=============================================================================
